---- MODULE Spec2Model ----
(***************************************************************************)
(* shap.plots.heatmap (src/shap/plots/_heatmap.py) as a state machine.     *)
(*                                                                         *)
(* One call of heatmap() is one behaviour: the arguments are chosen in     *)
(* Init, every action is one block of the function body, and pc is the     *)
(* line the call has reached.  Local variables of the function are state   *)
(* variables of the same name.  Floating point numbers are exact rationals *)
(* [n, d] (d = 0 encodes nan and +-inf), so rounding is not modelled;      *)
(* attribution values and scores are integer-valued floats.  Python        *)
(* indices are kept 0-based and translated at every subscript.             *)
(***************************************************************************)
EXTENDS Integers, Sequences, FiniteSets, TLC

VARIABLES
    shap_values,   \* argument: [values, feature_names] (the Explanation), never written
    args,          \* the ordering arguments as the caller passed them, never written
    max_display,   \* argument
    show,          \* argument
    input_order,   \* argument, rebound at line 44
    sample_order,  \* argument, rebound at line 48
    bound,         \* names of the locals that have been assigned so far
    values,        \* local (lines 42, 53, 66)
    feature_names, \* local (lines 52, 64-65)
    order_values,  \* local (lines 44, 54, 67)
    vmin,          \* local (line 74)
    vmax,          \* local (line 75)
    pl,            \* the calls made on the renderer (matplotlib.pyplot), in order
    err,           \* the exception that ended the call, type "none" while running
    pc             \* position in the function body

vars == <<shap_values, args, max_display, show, input_order, sample_order, bound,
          values, feature_names, order_values, vmin, vmax, pl, err, pc>>

----------------------------------------------------------------------------
(* Bounds of the model *)

MaxFeatures == 3
MaxSamples == 3
MaxCells == 4
MaxAbs == 1
MaxScore == 1

(* Program constants *)

BarScale == 20
LowPercentile == 1
HighPercentile == 99

----------------------------------------------------------------------------
(* Sequences and arrays *)

Range(s) == {s[i] : i \in 1..Len(s)}

RECURSIVE SeqSum(_)
SeqSum(s) == IF Len(s) = 0 THEN 0 ELSE s[1] + SeqSum(Tail(s))

Abs(x) == IF x < 0 THEN -x ELSE x

Sign(x) == IF x < 0 THEN -1 ELSE IF x > 0 THEN 1 ELSE 0

NRows(m) == Len(m)

NCols(m) == IF Len(m) = 0 THEN 0 ELSE Len(m[1])

\* Python slice s[a:] and s[:b] for 0 <= a, 0 <= b
SliceFrom(s, a) == SubSeq(s, a + 1, Len(s))

SliceTo(s, b) == SubSeq(s, 1, IF b < Len(s) THEN b ELSE Len(s))

\* numpy integer-array indexing a[idx]: element i of the result is a[idx[i]]
Take(a, idx) == [i \in 1..Len(idx) |-> a[idx[i] + 1]]

InBounds(idx, n) == \A i \in 1..Len(idx) : idx[i] \in 0..(n - 1)

\* values.flatten()
RECURSIVE Flatten(_)
Flatten(m) == IF Len(m) = 0 THEN <<>> ELSE m[1] \o Flatten(Tail(m))

\* element i (0-based) of sorted(a)
Sorted(a, i) ==
    CHOOSE v \in Range(a) :
        /\ Cardinality({j \in 1..Len(a) : a[j] < v}) <= i
        /\ Cardinality({j \in 1..Len(a) : a[j] <= v}) > i

----------------------------------------------------------------------------
(* Floats as exact rationals: [n, d] with d > 0 in lowest terms;           *)
(* [0, 0] is nan, [1, 0] is +inf and [-1, 0] is -inf                       *)

RECURSIVE Gcd(_, _)
Gcd(a, b) == IF b = 0 THEN a ELSE Gcd(b, a % b)

NaN == [n |-> 0, d |-> 0]

Rat(n, d) ==
    IF d = 0 THEN [n |-> Sign(n), d |-> 0]
    ELSE LET g == Gcd(Abs(n), Abs(d))
         IN  [n |-> (Sign(d) * n) \div g, d |-> Abs(d) \div g]

Float(x) == Rat(x, 1)

IsNaN(a) == a.d = 0 /\ a.n = 0

IsFinite(a) == a.d > 0

FNeg(a) == [n |-> -a.n, d |-> a.d]

FAbs(a) == [n |-> Abs(a.n), d |-> a.d]

FMul(a, b) ==
    IF IsFinite(a) /\ IsFinite(b) THEN Rat(a.n * b.n, a.d * b.d)
    ELSE IF IsNaN(a) \/ IsNaN(b) \/ a.n = 0 \/ b.n = 0 THEN NaN
    ELSE Rat(Sign(a.n) * Sign(b.n), 0)

FDiv(a, b) ==
    IF IsFinite(a) /\ IsFinite(b) THEN Rat(a.n * b.d, a.d * b.n)
    ELSE IF IsNaN(a) \/ IsNaN(b) \/ (~IsFinite(a) /\ ~IsFinite(b)) THEN NaN
    ELSE IF IsFinite(a) THEN Float(0)
    ELSE Rat(Sign(a.n) * (IF b.n < 0 THEN -1 ELSE 1), 0)

\* a < b on floats; every comparison with nan is false
FLt(a, b) ==
    IF IsNaN(a) \/ IsNaN(b) THEN FALSE
    ELSE IF IsFinite(a) /\ IsFinite(b) THEN a.n * b.d < b.n * a.d
    ELSE IF IsFinite(a) THEN b.n > 0
    ELSE IF IsFinite(b) THEN a.n < 0
    ELSE a.n < b.n

\* Python's builtin min(a, b) and max(a, b): the first argument unless the second is
\* strictly smaller (larger)
PyMin(a, b) == IF FLt(b, a) THEN b ELSE a

PyMax(a, b) == IF FLt(a, b) THEN b ELSE a

\* numpy's max over an array of floats: nan if any element is nan
NpMax(a) ==
    IF \E i \in 1..Len(a) : IsNaN(a[i]) THEN NaN
    ELSE CHOOSE x \in Range(a) : \A y \in Range(a) : ~FLt(x, y)

----------------------------------------------------------------------------
(* Ordering specifications.  An ordering argument is [kind, idx, scores]:  *)
(* kind "strategy" is an object of the type of shap.order, whose apply()   *)
(* returns the ordering idx (and the per-feature values scores when asked  *)
(* with return_values=True); kind "sized" is any object with __len__, here *)
(* an index array idx; kind "scalar" is anything else.                     *)

Strategy(idx, scores) == [kind |-> "strategy", idx |-> idx, scores |-> scores]

Sized(idx) == [kind |-> "sized", idx |-> idx, scores |-> <<>>]

Scalar == [kind |-> "scalar", idx |-> <<>>, scores |-> <<>>]

\* type(x) == type(order)
IsStrategy(x) == x.kind = "strategy"

\* the bug of letting every object that is not a strategy through
HasLen_Unchecked(x) == x.kind \in {"sized", "scalar"}

\* hasattr(x, "__len__")
HasLen(x) == x.kind = "sized"

\* x.apply(values, axis): the ordering the strategy computes
Apply(x) == x.idx

\* x.apply(values, axis, return_values=True)[1]
ApplyValues(x) == x.scores

----------------------------------------------------------------------------
(* The pure steps of the pipeline *)

\* np.array(shap_values.feature_names)[input_order]
ReindexNames(names, io) == Take(names, io)

\* the bug of writing row i to position so[i] instead of reading row so[i]
ReindexValues_Scatter(m, so, io) ==
    LET from(r) == IF \E i \in 1..Len(so) : so[i] = r - 1
                   THEN CHOOSE i \in 1..Len(so) : so[i] = r - 1
                   ELSE so[r] + 1
        rows == [r \in 1..Len(so) |-> m[from(r)]]
    IN  [i \in 1..Len(rows) |-> Take(rows[i], io)]

\* shap_values.values[sample_order][:,input_order]
ReindexValues(m, so, io) ==
    LET rows == Take(m, so)
    IN  [i \in 1..Len(rows) |-> Take(rows[i], io)]

\* order_values[input_order]
ReindexScores(ov, io) == Take(ov, io)

\* the bug of collapsing already when the count equals the cap
ShouldCollapse_AtCap(ncols, k) == ncols >= k

\* the bug of skipping the block for a cap that is not positive
ShouldCollapse_PositiveOnly(ncols, k) == k >= 1 /\ ncols > k

\* values.shape[1] > max_display
ShouldCollapse(ncols, k) == ncols > k

\* the bug of summing the tail from column k instead of column k-1
CollapseValues_TailFromK(m, k) ==
    [i \in 1..NRows(m) |-> SliceTo(m[i], k - 1) \o <<SeqSum(SliceFrom(m[i], k))>>]

\* new_values: columns :k-1 copied, column k-1 the row sums of columns k-1:
CollapseValues(m, k) ==
    [i \in 1..NRows(m) |-> SliceTo(m[i], k - 1) \o <<SeqSum(SliceFrom(m[i], k - 1))>>]

\* new_order_values
CollapseScores(ov, k) == SliceTo(ov, k - 1) \o <<SeqSum(SliceFrom(ov, k - 1))>>

\* "%d other features" % (values.shape[1] - max_display + 1)
OtherLabel(ncols, k) == ToString(ncols - k + 1) \o " other features"

\* list(feature_names[:max_display]) with its last element replaced
CollapseNames(names, ncols, k) ==
    LET kept == SliceTo(names, k)
    IN  [i \in 1..Len(kept) |-> IF i = Len(kept) THEN OtherLabel(ncols, k) ELSE kept[i]]

\* The exception the array operations of the collapse block raise, "none" if none:
\* np.zeros rejects a negative dimension; with max_display = 0 the slice :-1 of the
\* source has ncols-1 columns, which broadcasts into the 0 columns of new_values only
\* when it is 0 or 1 wide, and column -1 of a 0-column array does not exist.
CollapseError(ncols, k) ==
    IF k < 0 THEN "ValueError"
    ELSE IF k = 0 /\ ncols - 1 > 1 THEN "ValueError"
    ELSE IF k = 0 THEN "IndexError"
    ELSE "none"

\* np.nanpercentile(a, q) on an array without nan: linear interpolation between the
\* two order statistics around position (N-1)*q/100
Percentile(a, q) ==
    LET pos == (Len(a) - 1) * q
        lo  == pos \div 100
        fr  == pos % 100
        hi  == IF lo + 1 < Len(a) THEN lo + 1 ELSE lo
    IN  Rat(100 * Sorted(a, lo) + fr * (Sorted(a, hi) - Sorted(a, lo)), 100)

\* the vmin and vmax handed to imshow and to the colour bar
ScaleLow(lo, hi) == PyMin(lo, FNeg(hi))

\* the bug of taking the upper percentile as the upper bound
ScaleHigh_Unmirrored(lo, hi) == hi

ScaleHigh(lo, hi) == PyMax(FNeg(lo), hi)

\* fx = values.T.mean(0): one mean per sample, over the displayed columns
RowMeans(m) == [i \in 1..NRows(m) |-> Rat(SeqSum(m[i]), NCols(m))]

\* the bug of normalising by the largest mean instead of the largest absolute mean
MeanCurve_SignedMax(m) ==
    LET fx == [i \in 1..NRows(m) |-> Rat(SeqSum(m[i]), NCols(m))]
        top == CHOOSE x \in Range(fx) : \A y \in Range(fx) : ~FLt(x, y)
    IN  [i \in 1..Len(fx) |-> FDiv(FNeg(fx[i]), top)]

\* -fx/np.abs(fx).max()
MeanCurve(m) ==
    LET fx == RowMeans(m)
        top == NpMax([i \in 1..Len(fx) |-> FAbs(fx[i])])
    IN  [i \in 1..Len(fx) |-> FDiv(FNeg(fx[i]), top)]

\* (order_values / np.abs(order_values).max()) * values.shape[0] / 20
ImportanceBars(ov, nrows) ==
    LET top == NpMax([j \in 1..Len(ov) |-> FAbs(Float(ov[j]))])
    IN  [j \in 1..Len(ov) |->
            FDiv(FMul(FDiv(Float(ov[j]), top), Float(nrows)), Float(BarScale))]

----------------------------------------------------------------------------
(* The call *)

NoError == [type |-> "none", msg |-> ""]

Running == err.type = "none"

\* raise: the call ends at this line, the locals keep what they held
Raise(type, msg) ==
    /\ err' = [type |-> type, msg |-> msg]
    /\ pc' = "raised"

\* heatmap(shap_values, input_order, sample_order, max_display, cmap, show) is entered;
\* line 42 binds values
Start(sv, io, so, k, sh) ==
    /\ shap_values = sv
    /\ args = [input_order |-> io, sample_order |-> so]
    /\ max_display = k
    /\ show = sh
    /\ input_order = io
    /\ sample_order = so
    /\ bound = {"values"}
    /\ values = sv.values
    /\ feature_names = <<>>
    /\ order_values = <<>>
    /\ vmin = NaN
    /\ vmax = NaN
    /\ pl = <<>>
    /\ err = NoError
    /\ pc = "l43"

\* lines 43-46
ResolveInputOrder ==
    /\ pc = "l43"
    /\ UNCHANGED <<shap_values, args, max_display, show, sample_order, values,
                   feature_names, vmin, vmax, pl>>
    /\ IF IsStrategy(input_order)
       THEN /\ input_order' = Sized(Apply(input_order))
            /\ order_values' = ApplyValues(input_order)
            /\ bound' = bound \cup {"order_values"}
            /\ pc' = "l47"
            /\ UNCHANGED err
       ELSE IF ~HasLen(input_order)
       THEN /\ Raise("Exception", "Unsupported input_order")
            /\ UNCHANGED <<input_order, order_values, bound>>
       ELSE /\ pc' = "l47"
            /\ UNCHANGED <<input_order, order_values, bound, err>>

\* lines 47-50
ResolveSampleOrder ==
    /\ pc = "l47"
    /\ UNCHANGED <<shap_values, args, max_display, show, input_order, values,
                   feature_names, order_values, bound, vmin, vmax, pl>>
    /\ IF IsStrategy(sample_order)
       THEN /\ sample_order' = Sized(Apply(sample_order))
            /\ pc' = "l52"
            /\ UNCHANGED err
       ELSE IF ~HasLen(sample_order)
       THEN /\ Raise("Exception", "Unsupported sample_order")
            /\ UNCHANGED sample_order
       ELSE /\ pc' = "l52"
            /\ UNCHANGED <<sample_order, err>>

\* lines 52-54: each line is one assignment; an index outside the axis raises
\* IndexError at that line, and line 54 reads order_values, which only line 44 binds
Reindex ==
    /\ pc = "l52"
    /\ UNCHANGED <<shap_values, args, max_display, show, input_order, sample_order,
                   vmin, vmax, pl>>
    /\ IF ~InBounds(input_order.idx, Len(shap_values.feature_names))
       THEN /\ Raise("IndexError", "feature_names")
            /\ UNCHANGED <<feature_names, values, order_values, bound>>
       ELSE /\ feature_names' = ReindexNames(shap_values.feature_names, input_order.idx)
            /\ IF ~InBounds(sample_order.idx, NRows(shap_values.values))
               THEN /\ Raise("IndexError", "values")
                    /\ bound' = bound \cup {"feature_names"}
                    /\ UNCHANGED <<values, order_values>>
               ELSE /\ values' = ReindexValues(shap_values.values, sample_order.idx,
                                               input_order.idx)
                    /\ IF "order_values" \notin bound
                       THEN /\ Raise("UnboundLocalError", "order_values")
                            /\ bound' = bound \cup {"feature_names"}
                            /\ UNCHANGED order_values
                       ELSE /\ order_values' = ReindexScores(order_values, input_order.idx)
                            /\ bound' = bound \cup {"feature_names"}
                            /\ pc' = "l57"
                            /\ UNCHANGED err

\* lines 56-67
Collapse ==
    /\ pc = "l57"
    /\ UNCHANGED <<shap_values, args, max_display, show, input_order, sample_order,
                   bound, vmin, vmax, pl>>
    /\ IF ~ShouldCollapse(NCols(values), max_display)
       THEN /\ pc' = "l70"
            /\ UNCHANGED <<values, feature_names, order_values, err>>
       ELSE IF CollapseError(NCols(values), max_display) # "none"
       THEN /\ Raise(CollapseError(NCols(values), max_display), "new_values")
            /\ UNCHANGED <<values, feature_names, order_values>>
       ELSE /\ values' = CollapseValues(values, max_display)
            /\ order_values' = CollapseScores(order_values, max_display)
            /\ feature_names' = CollapseNames(feature_names, NCols(values), max_display)
            /\ pc' = "l70"
            /\ UNCHANGED err

\* lines 69-85: figure size, percentiles, the image and the tick labels
DrawMatrix ==
    /\ pc = "l70"
    /\ vmin' = Percentile(Flatten(values), LowPercentile)
    /\ vmax' = Percentile(Flatten(values), HighPercentile)
    /\ pl' = pl \o
         << [call |-> "set_size_inches", height |-> Rat(NCols(values) + 5, 2)],
            [call |-> "imshow",
             matrix |-> values,
             aspect |-> Rat(7 * NRows(values), 10 * NCols(values)),
             vmin |-> ScaleLow(vmin', vmax'),
             vmax |-> ScaleHigh(vmin', vmax')],
            [call |-> "yticks", labels |-> <<"f(x)">> \o feature_names] >>
    /\ pc' = "l89"
    /\ UNCHANGED <<shap_values, args, max_display, show, input_order, sample_order,
                   bound, values, feature_names, order_values, err>>

\* lines 89-108: the mean curve above the image and the importance bars beside it
DrawOverlays ==
    /\ pc = "l89"
    /\ pl' = pl \o
         << [call |-> "plot", curve |-> MeanCurve(values)],
            [call |-> "barh", widths |-> ImportanceBars(order_values, NRows(values))] >>
    /\ pc' = "l112"
    /\ UNCHANGED <<shap_values, args, max_display, show, input_order, sample_order,
                   bound, values, feature_names, order_values, vmin, vmax, err>>

\* lines 112-126
DrawColorbar ==
    /\ pc = "l112"
    /\ pl' = Append(pl, [call |-> "colorbar",
                         ticks |-> <<ScaleLow(vmin, vmax), ScaleHigh(vmin, vmax)>>])
    /\ pc' = "l131"
    /\ UNCHANGED <<shap_values, args, max_display, show, input_order, sample_order,
                   bound, values, feature_names, order_values, vmin, vmax, err>>

\* lines 128-132
Show ==
    /\ pc = "l131"
    /\ pl' = IF show THEN Append(pl, [call |-> "show"]) ELSE pl
    /\ pc' = "returned"
    /\ UNCHANGED <<shap_values, args, max_display, show, input_order, sample_order,
                   bound, values, feature_names, order_values, vmin, vmax, err>>

Next ==
    \/ ResolveInputOrder
    \/ ResolveSampleOrder
    \/ Reindex
    \/ Collapse
    \/ DrawMatrix
    \/ DrawOverlays
    \/ DrawColorbar
    \/ Show

----------------------------------------------------------------------------
(* The calls explored *)

\* shap_values.feature_names of an Explanation with n features
FeatureNames(n) == [j \in 1..n |-> "f" \o ToString(j - 1)]

Explanation(m) == [values |-> m, feature_names |-> FeatureNames(NCols(m))]

Shapes == (1..MaxSamples) \X (1..MaxFeatures)

\* the shapes of at most MaxCells cells
SmallShapes == {sh \in Shapes : sh[1] * sh[2] <= MaxCells}

\* every matrix of a shape over the attribution values -MaxAbs..MaxAbs
Matrices(ns, nf) == [1..ns -> [1..nf -> (-MaxAbs)..MaxAbs]]

\* the matrix of a shape whose cells are pairwise different
CellMatrix(ns, nf) == [i \in 1..ns |-> [j \in 1..nf |-> (i - 1) * nf + j]]

\* a matrix of ns samples whose odd rows are a and whose even rows are b
Striped(ns, a, b) == [i \in 1..ns |-> IF i % 2 = 1 THEN a ELSE b]

Perms(n) == {p \in [1..n -> 0..(n - 1)] : \A i, j \in 1..n : i # j => p[i] # p[j]}

Identity(n) == [i \in 1..n |-> i - 1]

Reversed(n) == [i \in 1..n |-> n - i]

\* the index arrays a caller passes: the permutations of the axis, and one array
\* each that is too short, too long, and of the right length with an index off the axis
IndexArrays(n) ==
    Perms(n)
    \cup (IF n > 1 THEN {SliceTo(Identity(n), n - 1)} ELSE {})
    \cup {Append(Identity(n), 0)}
    \cup {Append(SliceTo(Identity(n), n - 1), n)}

\* the per-feature values a feature strategy returns, in the matrix's column order
ScoreVectors(n) == {[j \in 1..n |-> s * (n - j + 1)] : s \in (-1)..MaxScore}

\* what a strategy may return for an axis of n elements
FeatureStrategies(n, orders) ==
    {Strategy(q, s) : q \in orders, s \in ScoreVectors(n)}

SampleStrategies(orders) == {Strategy(p, <<>>) : p \in orders}

\* any call: every kind of ordering argument on both axes, every max_display
\* around the feature count, on the matrix with distinct cells
InitCall ==
    \E sh \in Shapes :
    \E io \in FeatureStrategies(sh[2], Perms(sh[2]))
              \cup {Sized(x) : x \in IndexArrays(sh[2])} \cup {Scalar} :
    \E so \in SampleStrategies(Perms(sh[1]))
              \cup {Sized(x) : x \in IndexArrays(sh[1])} \cup {Scalar} :
    \E k \in (-1)..(sh[2] + 1) :
        Start(Explanation(CellMatrix(sh[1], sh[2])), io, so, k, TRUE)

\* calls with strategies on both axes, on every matrix of every shape
InitData ==
    \E sh \in SmallShapes :
    \E m \in Matrices(sh[1], sh[2]) :
    \E io \in FeatureStrategies(sh[2], {Identity(sh[2]), Reversed(sh[2])}) :
    \E so \in SampleStrategies({Identity(sh[1]), Reversed(sh[1])}) :
    \E k \in 1..(sh[2] + 1) :
        Start(Explanation(m), io, so, k, TRUE)

\* calls with strategies on both axes, on matrices with about BarScale samples
InitWide ==
    \E ns \in {2, BarScale, BarScale + 1} :
    \E nf \in 1..2 :
    \E a \in [1..nf -> (-MaxAbs)..MaxAbs] :
    \E b \in {a, [j \in 1..nf |-> -a[j]], [j \in 1..nf |-> 0]} :
    \E io \in FeatureStrategies(nf, Perms(nf)) :
    \E so \in SampleStrategies({Identity(ns), Reversed(ns)}) :
    \E k \in 1..nf :
    \E s \in BOOLEAN :
        Start(Explanation(Striped(ns, a, b)), io, so, k, s)

Spec == InitCall /\ [][Next]_vars

SpecData == InitData /\ [][Next]_vars

SpecWide == InitWide /\ [][Next]_vars

----------------------------------------------------------------------------
(* Vocabulary of the properties *)

FeatureCount == Len(shap_values.feature_names)

SampleCount == NRows(shap_values.values)

Drawn(name) == \E i \in 1..Len(pl) : pl[i].call = name

Call(name) == pl[CHOOSE i \in 1..Len(pl) : pl[i].call = name]

IsPermutation(idx, n) == Len(idx) = n /\ \A v \in 0..(n - 1) : \E i \in 1..n : idx[i] = v

\* the permutation that undoes p
Inverse(p) == [v \in 1..Len(p) |-> (CHOOSE i \in 1..Len(p) : p[i] = v - 1) - 1]

RECURSIVE SumFromTo(_, _, _)
SumFromTo(s, a, b) == IF a > b THEN 0 ELSE s[a] + SumFromTo(s, a + 1, b)

InUnitInterval(a) == IsFinite(a) /\ Abs(a.n) <= a.d

Unsupported(x) == x.kind = "scalar"

AfterCollapse == pc \in {"l70", "l89", "l112", "l131", "returned"}

----------------------------------------------------------------------------
(* C1: when the collapse block runs with 1 <= max_display < feature count, its      *)
(* result has exactly max_display columns, labels and scores; the first             *)
(* max_display-1 of each are unchanged; the last column holds, per sample, the sum  *)
(* of the original columns max_display-1..end, the last score the sum of those      *)
(* scores, and the last label is "<n> other features" with                          *)
(* n = feature count - max_display + 1.                                             *)
C1_CollapseAggregatesTail ==
    [][ (pc = "l57" /\ pc' # pc /\ max_display >= 1 /\ max_display < NCols(values)) =>
        LET k == max_display
            n == NCols(values)
        IN  /\ pc' = "l70"
            /\ NRows(values') = NRows(values)
            /\ \A i \in 1..NRows(values) : Len(values'[i]) = k
            /\ Len(feature_names') = k
            /\ Len(order_values') = k
            /\ \A j \in 1..(k - 1) :
                 /\ feature_names'[j] = feature_names[j]
                 /\ order_values'[j] = order_values[j]
                 /\ \A i \in 1..NRows(values) : values'[i][j] = values[i][j]
            /\ \A i \in 1..NRows(values) : values'[i][k] = SumFromTo(values[i], k, n)
            /\ order_values'[k] = SumFromTo(order_values, k, n)
            /\ feature_names'[k] = ToString(n - k + 1) \o " other features"
      ]_vars

\* a collapse to 2 columns of a matrix with more features has happened
C1_Witness ==
    /\ pc = "l70"
    /\ max_display = 2
    /\ FeatureCount > 2
    /\ Len(feature_names) = 2
    /\ \E i \in 1..NRows(values) : values[i][2] # 0

(* C10: when max_display >= feature count (the boundary max_display = feature count *)
(* included) the collapse block changes nothing: matrix, labels and scores after it *)
(* equal those before it and every label is still one of the explanation's names.   *)
C10_CollapseNoOpAtOrAboveCount ==
    [][ (pc = "l57" /\ pc' # pc /\ max_display >= NCols(values)) =>
        /\ pc' = "l70"
        /\ values' = values
        /\ feature_names' = feature_names
        /\ order_values' = order_values
        /\ Range(feature_names') \subseteq Range(shap_values.feature_names)
      ]_vars

\* the collapse block has been passed with max_display equal to the feature count
C10_Witness ==
    /\ pc = "l70"
    /\ max_display = FeatureCount
    /\ FeatureCount > 1
    /\ Len(feature_names) = FeatureCount

C2_UnsupportedOrderingRaisesFirst ==
    /\ (Unsupported(args.input_order) /\ pc # "l43") =>
         /\ pc = "raised"
         /\ err = [type |-> "Exception", msg |-> "Unsupported input_order"]
         /\ values = shap_values.values
         /\ "feature_names" \notin bound
         /\ pl = <<>>
    /\ (~Unsupported(args.input_order) /\ Unsupported(args.sample_order)
            /\ pc \notin {"l43", "l47"}) =>
         /\ pc = "raised"
         /\ err = [type |-> "Exception", msg |-> "Unsupported sample_order"]
         /\ values = shap_values.values
         /\ "feature_names" \notin bound
         /\ pl = <<>>

\* the call has ended on an unsupported sample_order after a feature strategy ran
C2_Witness ==
    /\ pc = "raised"
    /\ err.msg = "Unsupported sample_order"
    /\ IsStrategy(args.input_order)
    /\ "order_values" \in bound

(* C4: with an index array that is a permutation of the features as input_order     *)
(* (and a usable sample_order and max_display) the call never ends in an exception. *)
C4_ExplicitInputOrderCompletes ==
    (/\ HasLen(args.input_order)
     /\ IsPermutation(args.input_order.idx, FeatureCount)
     /\ IsStrategy(args.sample_order)
     /\ max_display >= 1) => Running

(* C6: an index array as sample_order whose length differs from the sample count    *)
(* (its indices on the axis, input_order a strategy, max_display >= 1) ends the     *)
(* call with ShapeMismatch, and the renderer receives nothing.                      *)
C6_LengthMismatchRaisesShapeMismatch ==
    (/\ HasLen(args.sample_order)
     /\ Len(args.sample_order.idx) # SampleCount
     /\ InBounds(args.sample_order.idx, SampleCount)
     /\ IsStrategy(args.input_order)
     /\ max_display >= 1) =>
        /\ pl = <<>>
        /\ pc # "returned"
        /\ pc = "raised" => err.type = "ShapeMismatch"

(* C7 as claimed: a max_display below 1 (with strategies on both axes) ends the     *)
(* call with InvalidDisplayCount and the renderer receives nothing.                 *)
C7_RaisesInvalidDisplayCount ==
    (max_display < 1 /\ IsStrategy(args.input_order) /\ IsStrategy(args.sample_order)) =>
        /\ pl = <<>>
        /\ pc # "returned"
        /\ pc = "raised" => err.type = "InvalidDisplayCount"

(* C7 as amended: with at least one feature, a max_display below 1 always ends the  *)
(* call in an exception before the renderer is called and before the collapse block *)
(* is passed; the exception is the first one the body meets (the unsupported-       *)
(* ordering Exception, IndexError, UnboundLocalError, or the ValueError/IndexError  *)
(* of the array operations of the collapse block when both orderings are usable).   *)
C7_NonPositiveDisplayNeverRenders ==
    max_display < 1 =>
        /\ pl = <<>>
        /\ ~AfterCollapse
        /\ pc = "raised" \/ ENABLED Next
        /\ pc = "raised" =>
             err.type \in {"Exception", "IndexError", "UnboundLocalError", "ValueError"}
        /\ (pc = "raised" /\ "feature_names" \in bound /\ "order_values" \in bound
                /\ InBounds(sample_order.idx, SampleCount)) =>
             /\ err.type \in {"ValueError", "IndexError"}
             /\ max_display < 0 => err.type = "ValueError"
             /\ values = ReindexValues(shap_values.values, sample_order.idx,
                                       input_order.idx)

\* the collapse block has raised on max_display = 0
C7_Witness ==
    /\ max_display = 0
    /\ pc = "raised"
    /\ err.msg = "new_values"
    /\ IsStrategy(args.input_order)
    /\ IsStrategy(args.sample_order)

(* C5: for an all-zero attribution matrix the call raises nothing, the colour scale  *)
(* handed to the renderer is exactly {-1, 1}, and the mean curve is all zeros.      *)
C5_AllZeroMatrixFallsBack ==
    (\A i \in 1..SampleCount : \A j \in 1..FeatureCount : shap_values.values[i][j] = 0) =>
        /\ Running
        /\ Drawn("imshow") =>
             Call("imshow").vmin = Float(-1) /\ Call("imshow").vmax = Float(1)
        /\ Drawn("plot") =>
             \A i \in 1..Len(Call("plot").curve) : Call("plot").curve[i] = Float(0)

(* C8: the colour scale handed to the renderer (to imshow, and to the colour bar as *)
(* its ticks) is symmetric around zero: with p1 <= p99 the 1st and 99th percentile  *)
(* of the displayed matrix, high = -low and high = max(|p1|, |p99|), also when both *)
(* percentiles are positive or both are negative.                                   *)
C8_ColourScaleSymmetric ==
    Drawn("imshow") =>
        LET low  == Call("imshow").vmin
            high == Call("imshow").vmax
            top  == IF FLt(FAbs(vmin), FAbs(vmax)) THEN FAbs(vmax) ELSE FAbs(vmin)
        IN  /\ vmin = Percentile(Flatten(Call("imshow").matrix), LowPercentile)
            /\ vmax = Percentile(Flatten(Call("imshow").matrix), HighPercentile)
            /\ ~FLt(vmax, vmin)
            /\ IsFinite(low) /\ IsFinite(high)
            /\ high.n = -low.n /\ high.d = low.d
            /\ high = top
            /\ Drawn("colorbar") => Call("colorbar").ticks = <<low, high>>

\* a scale has been drawn for a matrix whose percentiles are both negative and differ
C8_Witness ==
    /\ Drawn("colorbar")
    /\ FLt(vmin, vmax)
    /\ FLt(vmax, Float(0))

(* C9 as claimed: for a non-degenerate input (largest absolute row mean and largest *)
(* absolute score both non-zero) every value of the mean curve and every value of   *)
(* the importance bars lies in [-1, 1], for any sample count.                       *)
C9_OverlaysWithinUnitInterval ==
    (/\ Drawn("barh")
     /\ \E i \in 1..NRows(values) : SeqSum(values[i]) # 0
     /\ \E j \in 1..Len(order_values) : order_values[j] # 0) =>
        /\ \A i \in 1..Len(Call("plot").curve) : InUnitInterval(Call("plot").curve[i])
        /\ \A j \in 1..Len(Call("barh").widths) : InUnitInterval(Call("barh").widths[j])

(* C9 as amended: for a non-degenerate input every value of the mean curve lies in  *)
(* [-1, 1] and some value has magnitude 1; every importance bar lies in             *)
(* [-s/20, s/20] for s the number of displayed samples, and the bar of the largest  *)
(* absolute score has magnitude exactly s/20, so the bars lie in [-1, 1] exactly    *)
(* when s <= 20.                                                                    *)
C9_OverlaysWithinScaledBounds ==
    (/\ Drawn("barh")
     /\ \E i \in 1..NRows(values) : SeqSum(values[i]) # 0
     /\ \E j \in 1..Len(order_values) : order_values[j] # 0) =>
        LET curve == Call("plot").curve
            bars  == Call("barh").widths
            s     == NRows(values)
        IN  /\ Len(curve) = s
            /\ \A i \in 1..s : InUnitInterval(curve[i])
            /\ \E i \in 1..s : Abs(curve[i].n) = curve[i].d
            /\ Len(bars) = Len(order_values)
            /\ \A j \in 1..Len(bars) :
                 IsFinite(bars[j]) /\ BarScale * Abs(bars[j].n) <= s * bars[j].d
            /\ \E j \in 1..Len(bars) : BarScale * Abs(bars[j].n) = s * bars[j].d
            /\ (\A j \in 1..Len(bars) : InUnitInterval(bars[j])) <=> s <= BarScale

\* the overlays of a non-degenerate matrix with more than BarScale samples are drawn
C9_Witness ==
    /\ Drawn("barh")
    /\ NRows(values) > BarScale
    /\ \E i \in 1..NRows(values) : SeqSum(values[i]) < 0
    /\ \E i \in 1..NRows(values) : SeqSum(values[i]) > 0
    /\ \E j \in 1..Len(order_values) : order_values[j] < 0

====
